---- MODULE Spec2Model ----
(***************************************************************************)
(* A model of the barbones agent: the chat loop of main.py                 *)
(* (run_chat_loop and the two tool-request parsers) and the tools of       *)
(* tools.py (scrape_and_embed_website, query_information).                 *)
(*                                                                         *)
(* Python str values are TLA+ strings; Len, SubSeq and \o act on them as   *)
(* on sequences of characters.  The model completion, the HTTP fetch with  *)
(* its paragraph extraction and the vector store are collaborators: their  *)
(* results are drawn from small sets by the actions that call them.        *)
(***************************************************************************)
EXTENDS Integers, Sequences, FiniteSets, TLC

(***************************************************************************)
(* Python string operations used by the code.  Positions are 1-based and   *)
(* 0 stands for "not found".                                               *)
(***************************************************************************)

\* s[a-1:b] for the inclusive range a..b; empty when the range is empty.
Slice(s, a, b) == IF b < a THEN "" ELSE SubSeq(s, a, b)

CharAt(s, i) == SubSeq(s, i, i)

\* The least and the greatest position of a set of positions.
MinOf(S) == IF S = {} THEN 0 ELSE CHOOSE i \in S : \A j \in S : i <= j
MaxOf(S) == IF S = {} THEN 0 ELSE CHOOSE i \in S : \A j \in S : i >= j

\* str.startswith
StartsWith(s, p) == Len(s) >= Len(p) /\ SubSeq(s, 1, Len(p)) = p

\* str.endswith
EndsWith(s, p) == Len(s) >= Len(p) /\ SubSeq(s, Len(s) - Len(p) + 1, Len(s)) = p

\* The positions at or after start where sub occurs in s.
Occurrences(s, sub, start) ==
    {i \in start..(Len(s) - Len(sub) + 1) : SubSeq(s, i, i + Len(sub) - 1) = sub}

\* str.find(sub, start)
FindFrom(s, sub, start) == MinOf(Occurrences(s, sub, start))

\* str.find(sub)
Find(s, sub) == MinOf(Occurrences(s, sub, 1))

\* str.rfind(sub)
RFind(s, sub) == MaxOf(Occurrences(s, sub, 1))

\* sub in s
Contains(s, sub) == Occurrences(s, sub, 1) # {}

Whitespace == {" ", "\t", "\n", "\r", "\f"}

\* s from the first to the last of the positions kept.
Between(s, keep) == IF keep = {} THEN "" ELSE SubSeq(s, MinOf(keep), MaxOf(keep))

\* str.strip(): leading and trailing whitespace removed.
Strip(s) == Between(s, {i \in 1..Len(s) : CharAt(s, i) \notin Whitespace})

\* str.strip(ch): leading and trailing occurrences of the character ch removed.
StripChar(s, ch) == Between(s, {i \in 1..Len(s) : CharAt(s, i) # ch})

UpperLetters == "ABCDEFGHIJKLMNOPQRSTUVWXYZ"
LowerLetters == "abcdefghijklmnopqrstuvwxyz"
Digits == "0123456789"

\* The lower-case letter for the i-th upper-case letter; c itself for i = 0.
LowerAt(c, i) == IF i = 0 THEN c ELSE CharAt(LowerLetters, i)

LowerChar(c) == LowerAt(c, Find(UpperLetters, c))

\* str.lower()
RECURSIVE Lower(_)
Lower(s) == IF s = "" THEN "" ELSE LowerChar(Head(s)) \o Lower(Tail(s))

(***************************************************************************)
(* main.py: the tool-request grammar.                                      *)
(***************************************************************************)
SCRAPE_URL_PREFIX == "TOOL_REQUEST: scrape_url(url="
GET_FROM_VDB_PREFIX == "TOOL_REQUEST: get_from_vdb("
TOOL_REQUEST_SUFFIX == ")"

\* An optional value is a tuple: Python's None is the empty tuple and a
\* present string s is <<s>>.  A present pair is <<q, c>>.
None == <<>>
Some(s) == <<s>>

\* Python truthiness of an optional string: None and "" are both false.
TruthyStr(opt) == opt # None /\ opt[1] # ""

\* Python truthiness of an optional tuple: any non-empty tuple is true.
TruthyTuple(opt) == opt # None

\* llm_output[len(prefix):-len(TOOL_REQUEST_SUFFIX)]
Inner(llm_output, prefix) ==
    Slice(llm_output, Len(prefix) + 1, Len(llm_output) - Len(TOOL_REQUEST_SUFFIX))

\* The quoted content_part without its first and last character, or None.
Unquote(content_part) ==
    IF StartsWith(content_part, "\"") /\ EndsWith(content_part, "\"")
    THEN Some(Slice(content_part, 2, Len(content_part) - 1))
    ELSE None

\* parse_scrape_url_request: Some(url), the URL possibly empty, or None.
parse_scrape_url_request(llm_output) ==
    IF StartsWith(llm_output, SCRAPE_URL_PREFIX) /\ EndsWith(llm_output, TOOL_REQUEST_SUFFIX)
    THEN Unquote(Inner(llm_output, SCRAPE_URL_PREFIX))
    ELSE None

\* Group 1 of a match that opens at position at (0: no occurrence of key=")
\* and whose value starts at from: the text up to the next quote, or None
\* when there is no later quote.
GroupAt(args_str, at, from, close) ==
    IF at = 0 \/ close = 0 THEN None ELSE Some(Slice(args_str, from, close - 1))

QuotedAt(args_str, open, at) ==
    GroupAt(args_str, at, at + Len(open),
            IF at = 0 THEN 0 ELSE FindFrom(args_str, "\"", at + Len(open)))

\* re.search(key + '="([^"]*)"', args_str): group 1 of the leftmost match, or
\* None.  The group holds no quote, so it ends at the first quote after the
\* opening one; if the first key=" has no later quote, no later one has.
SearchQuoted(key, args_str) ==
    QuotedAt(args_str, key \o "=\"", Find(args_str, key \o "=\""))

\* if query_match and category_match: return query, category
BothGroups(query_match, category_match) ==
    IF query_match # None /\ category_match # None
    THEN <<query_match[1], category_match[1]>>
    ELSE None

VdbArgs(args_str) ==
    BothGroups(SearchQuoted("query", args_str), SearchQuoted("category", args_str))

\* parse_get_from_vdb_request: <<query, category>> or None.
parse_get_from_vdb_request(llm_output) ==
    IF StartsWith(llm_output, GET_FROM_VDB_PREFIX) /\ EndsWith(llm_output, TOOL_REQUEST_SUFFIX)
    THEN VdbArgs(Inner(llm_output, GET_FROM_VDB_PREFIX))
    ELSE None

(***************************************************************************)
(* tools.py: the category of a scraped page (scrape_and_embed_website).    *)
(***************************************************************************)
SchemeChars == LowerLetters \o UpperLetters \o Digits \o "+-."

\* urlsplit: the text before the first colon (at position i) is a scheme
\* when it starts with a letter and holds scheme characters only.
HasScheme(url, i) ==
    /\ i > 1
    /\ Contains(LowerLetters \o UpperLetters, CharAt(url, 1))
    /\ \A k \in 1..(i - 1) : Contains(SchemeChars, CharAt(url, k))

\* The URL after its scheme and colon, if it has one.
AfterScheme(url, i) == IF HasScheme(url, i) THEN Slice(url, i + 1, Len(url)) ELSE url

\* The network location of a rest that starts with //: what follows the
\* two slashes up to the first of / ? # (at position delim, 0 for none).
NetlocUpTo(rest, delim) == Slice(rest, 3, IF delim = 0 THEN Len(rest) ELSE delim - 1)

NetlocOf(rest) ==
    IF StartsWith(rest, "//")
    THEN NetlocUpTo(rest, MinOf(Occurrences(rest, "/", 3) \cup Occurrences(rest, "?", 3)
                                \cup Occurrences(rest, "#", 3)))
    ELSE ""

\* urlparse(url).netloc.  (URLs with control characters or square brackets
\* are outside the inputs of the model.)
UrlNetloc(url) == NetlocOf(AfterScheme(url, Find(url, ":")))

\* netloc.rpartition('@')[2]
AfterAt(netloc) == Slice(netloc, RFind(netloc, "@") + 1, Len(netloc))

\* hostinfo.partition(':')[0], the colon being at position colon
BeforeColon(hostinfo, colon) ==
    IF colon = 0 THEN hostinfo ELSE Slice(hostinfo, 1, colon - 1)

\* None for an empty host name, else the name in lower case.
LowerOrNone(hostname) == IF hostname = "" THEN None ELSE Some(Lower(hostname))

HostOf(hostinfo) == LowerOrNone(BeforeColon(hostinfo, Find(hostinfo, ":")))

\* urlparse(url).hostname
UrlHostname(url) == HostOf(AfterAt(UrlNetloc(url)))

\* The characters re.sub(r'[^a-zA-Z0-9_-]+', ...) leaves alone.
CategoryChars == LowerLetters \o UpperLetters \o Digits \o "_-"

IsCategoryChar(c) == Contains(CategoryChars, c)

\* s without its leading run of characters outside CategoryChars.
RECURSIVE SkipRun(_)
SkipRun(s) ==
    IF s = "" \/ IsCategoryChar(Head(s)) THEN s ELSE SkipRun(Tail(s))

\* re.sub(r'[^a-zA-Z0-9_-]+', '_', s): every maximal run of other characters
\* becomes one underscore.
RECURSIVE Sanitize(_)
Sanitize(s) ==
    IF s = "" THEN ""
    ELSE IF IsCategoryChar(Head(s)) THEN Head(s) \o Sanitize(Tail(s))
    ELSE "_" \o Sanitize(SkipRun(Tail(s)))

TRUNCATE_LEN == 60
MIN_LEN == 3
MAX_LEN == 63

\* if len(category) > 60: category = category[:60]
Truncate(category) ==
    IF Len(category) > TRUNCATE_LEN THEN Slice(category, 1, TRUNCATE_LEN) ELSE category

\* while len(category) < 3: category += "_"
RECURSIVE PadTo(_, _)
PadTo(s, n) == IF Len(s) < n THEN PadTo(s \o "_", n) ELSE s

\* Lengthen with the short, non-empty case forgotten: only the empty name
\* is replaced.
Lengthen_OnlyEmpty(category) == IF category = "" THEN "scraped_data" ELSE category

\* if len(category) < 3: the "_web" suffix or "scraped_data", then the padding
Lengthen(category) ==
    IF Len(category) < MIN_LEN
    THEN PadTo(IF category # "" THEN category \o "_web" ELSE "scraped_data", MIN_LEN)
    ELSE category

\* category = category[:63]
FinalTrim(category) ==
    Slice(category, 1, IF Len(category) < MAX_LEN THEN Len(category) ELSE MAX_LEN)

\* if not category: category = "default_scraped_content"
OrDefault(category) == IF category = "" THEN "default_scraped_content" ELSE category

\* parsed_url.hostname if parsed_url.hostname else "scraped_website"
HostnameOr(hostname) == IF TruthyStr(hostname) THEN hostname[1] ELSE "scraped_website"

\* category_name_base of scrape_and_embed_website.
CategoryNameBase(url) == HostnameOr(UrlHostname(url))

\* The category computed from category_name_base (tools.py 127-140).
DeriveCategory(category_name_base) ==
    OrDefault(FinalTrim(Lengthen(Truncate(StripChar(Sanitize(category_name_base), "_")))))

(***************************************************************************)
(* tools.py: the store.  chromadb.Client() is one in-memory store for the  *)
(* process: a function from collection names to the items added, in order. *)
(***************************************************************************)

\* A call, as logged by the model: the function, its arguments, how it ended
\* ("returned" or the exception raised) and what it returned: the content of
\* the message for a completion, the paragraphs of the page for a fetch, the
\* list of identifiers for scrape_and_embed_website, str(e) for a
\* get_collection that raised.
Completed(fn, args, kind, content) ==
    [fn |-> fn, args |-> args, kind |-> kind, content |-> content]

\* A call that returned.
Call(fn, args) == Completed(fn, args, "returned", None)

\* A call that raised.
Raised(fn, args, kind) == Completed(fn, args, kind, None)

\* The items of one collection.add: one per chunk, chunk_index i - 1, the
\* identifiers uuid, uuid + 1, ... standing for fresh uuid4 values.
NewItems(url, category_name_base, chunks, uuid) ==
    [i \in 1..Len(chunks) |->
        [id |-> uuid + i - 1,
         document |-> chunks[i],
         metadata |-> [source_url |-> url,
                       chunk_index |-> i - 1,
                       original_category_base |-> category_name_base]]]

Documents(items) == [i \in 1..Len(items) |-> items[i].document]

Ids(items) == [i \in 1..Len(items) |-> items[i].id]

\* get_or_create_collection(name): the store with the collection present.
GetOrCreate(colls, name) ==
    IF name \in DOMAIN colls THEN colls ELSE colls @@ (name :> <<>>)

\* collection.add: the items appended to the collection.
AddItems(colls, name, items) == [colls EXCEPT ![name] = @ \o items]

\* What the store may do in one scrape: serve both calls, raise in
\* get_or_create_collection, or raise in collection.add.
ScrapeStoreOutcomes == {"ok", "create_raises", "add_raises"}

\* What a call of scrape_and_embed_website did: whether it raised, the list
\* it returned, the store afterwards, the next fresh identifier, the calls.
ScrapeResult(raised, doc_ids, colls, uuid, log) ==
    [raised |-> raised, doc_ids |-> doc_ids, collections |-> colls,
     next_uuid |-> uuid, calls |-> log]

\* tools.py 143-171: the collection, the batch, the second test for an empty
\* batch and the single add.
StoreChunks(url, category, items, outcome, colls, uuid) ==
    IF outcome = "create_raises"
    THEN ScrapeResult(TRUE, <<>>, colls, uuid,
                      << Call("requests.get", <<url>>),
                         Raised("get_or_create_collection", <<category>>, "Exception") >>)
    ELSE IF items = <<>>
    THEN ScrapeResult(FALSE, <<>>, GetOrCreate(colls, category), uuid,
                      << Call("requests.get", <<url>>),
                         Call("get_or_create_collection", <<category>>) >>)
    ELSE IF outcome = "add_raises"
    THEN ScrapeResult(TRUE, <<>>, GetOrCreate(colls, category), uuid + Len(items),
                      << Call("requests.get", <<url>>),
                         Call("get_or_create_collection", <<category>>),
                         Raised("collection.add", <<category, Documents(items)>>,
                                "Exception") >>)
    ELSE ScrapeResult(FALSE, Ids(items),
                      AddItems(GetOrCreate(colls, category), category, items),
                      uuid + Len(items),
                      << Call("requests.get", <<url>>),
                         Call("get_or_create_collection", <<category>>),
                         Call("collection.add", <<category, Documents(items)>>) >>)

\* tools.py 122-140: the category of the page.
Categorize(url, category_name_base, chunks, outcome, colls, uuid) ==
    StoreChunks(url, DeriveCategory(category_name_base),
                NewItems(url, category_name_base, chunks, uuid), outcome, colls, uuid)

\* EmbedChunks without the test of line 118: the store is reached with no
\* chunk.
EmbedChunks_NoEmptyTest(url, chunks, outcome, colls, uuid) ==
    Categorize(url, CategoryNameBase(url), chunks, outcome, colls, uuid)

\* tools.py 116-120: nothing is stored when no chunk is left.
EmbedChunks(url, chunks, outcome, colls, uuid) ==
    IF chunks = <<>>
    THEN ScrapeResult(FALSE, <<>>, colls, uuid, << Call("requests.get", <<url>>) >>)
    ELSE Categorize(url, CategoryNameBase(url), chunks, outcome, colls, uuid)

\* The log of a call whose fetch returned: the requests.get entry carries
\* the paragraphs of the page.
Fetched(r, paragraphs) == [r EXCEPT !.calls[1].content = paragraphs]

\* scrape_and_embed_website without the filter of line 116: every paragraph
\* is a chunk.
scrape_and_embed_website_NoFilter(url, fetch, outcome, colls, uuid) ==
    IF ~fetch.ok
    THEN ScrapeResult(FALSE, <<>>, colls, uuid,
                      << Raised("requests.get", <<url>>, "RequestException") >>)
    ELSE Fetched(EmbedChunks(url, fetch.paragraphs, outcome, colls, uuid),
                 fetch.paragraphs)

\* scrape_and_embed_website(url).  fetch is what requests.get and the
\* paragraph extraction give: [ok, paragraphs], the paragraphs being the
\* get_text(strip=True) of each <p>.
scrape_and_embed_website(url, fetch, outcome, colls, uuid) ==
    IF ~fetch.ok
    THEN ScrapeResult(FALSE, <<>>, colls, uuid,
                      << Raised("requests.get", <<url>>, "RequestException") >>)
    ELSE Fetched(EmbedChunks(url, SelectSeq(fetch.paragraphs, LAMBDA p : p # ""),
                             outcome, colls, uuid),
                 fetch.paragraphs)

N_RESULTS == 5

\* What the store may do in collection.query: answer or raise.
QueryStoreOutcomes == {"ok", "query_raises"}

\* str(e) of the failure of get_collection for a collection that is absent.
NotFoundMessage(name) == "Collection " \o name \o " does not exist."

\* The dict returned on an error: the message and no documents.
ErrorResult(message) == [error |-> Some(message), documents |-> << <<>> >>]

\* The ranking is the store's: the model returns the first N_RESULTS documents.
TopDocuments(docs) ==
    SubSeq(docs, 1, IF Len(docs) < N_RESULTS THEN Len(docs) ELSE N_RESULTS)

\* What a call of query_information did: whether it raised, the dict it
\* returned (error is None when the key is absent), the store calls made.
QueryResult(raised, result, log) == [raised |-> raised, result |-> result, calls |-> log]

\* query_information(query_text, category): get_collection first, then the
\* test of the query text, then collection.query.
query_information(query_text, category, outcome, colls) ==
    IF category \notin DOMAIN colls
    THEN QueryResult(FALSE, ErrorResult(NotFoundMessage(category)),
                     << Completed("get_collection", <<category>>, "Exception",
                                  Some(NotFoundMessage(category))) >>)
    ELSE IF query_text = ""
    THEN QueryResult(FALSE, ErrorResult("Query text cannot be empty"),
                     << Call("get_collection", <<category>>) >>)
    ELSE IF outcome = "query_raises"
    THEN QueryResult(TRUE, ErrorResult(""),
                     << Call("get_collection", <<category>>),
                        Raised("collection.query", <<category, query_text>>, "Exception") >>)
    ELSE QueryResult(FALSE,
                     [error |-> None,
                      documents |-> << TopDocuments(Documents(colls[category])) >>],
                     << Call("get_collection", <<category>>),
                        Call("collection.query", <<category, query_text>>) >>)

(***************************************************************************)
(* main.py: the messages of run_chat_loop.                                 *)
(***************************************************************************)
MODEL_NAME == "gpt-3.5-turbo"

Msg(role, content) == [role |-> role, content |-> content]

system_message_content ==
    "You are a helpful assistant using the " \o MODEL_NAME \o " model. You have two tools available.\n"
    \o "1. URL Scraper: If the user provides text that you identify as a URL that should be processed (scraped and its content stored for later), "
    \o "you MUST respond with ONLY the following exact format: " \o SCRAPE_URL_PREFIX \o "\"THE_URL_HERE\"" \o TOOL_REQUEST_SUFFIX \o "\n"
    \o "When a URL is scraped, its content is automatically categorized in the Vector Database (VDB). The category name is derived from the website's hostname by first removing any leading 'www.' prefix, then removing the top-level domain extension (e.g., '.com', '.org', '.edu'). The remaining part is then sanitized (dots become underscores). For example, 'www.fib.upc.edu' would result in a category like 'fib_upc'. Remember this specific naming convention for later queries.\n"
    \o "2. VDB Search: If the user asks a question and you believe the answer might be in the VDB from previously processed URLs, "
    \o "you MUST respond with ONLY the following exact format: " \o GET_FROM_VDB_PREFIX \o "query=\"YOUR_SEARCH_QUERY\", category=\"DERIVED_CATEGORY_NAME\"" \o TOOL_REQUEST_SUFFIX \o "\n"
    \o "Replace \"YOUR_SEARCH_QUERY\" with the specific query, and \"DERIVED_CATEGORY_NAME\" with the category name formed according to the rule described above (e.g., for 'www.example.com', the category would be 'example'; for 'www.another.domain.co.uk', it would be 'another_domain_co').\n"
    \o "IMPORTANT: If you decide to use a tool, your response must consist *only* of the tool request string. Do not add any other text or explanation.\n"
    \o "If you can answer directly or the input is not a URL to scrape and does not require VDB search, then provide a direct answer to the user."

\* The category the system message tells the model to use for a hostname:
\* a leading "www." removed, then the top-level domain (the last
\* dot-separated segment) removed, then dots turned into underscores.
StripWww(hostname) ==
    IF StartsWith(hostname, "www.") THEN Slice(hostname, 5, Len(hostname)) ELSE hostname

StripTld(hostname, lastDot) ==
    IF lastDot = 0 THEN hostname ELSE Slice(hostname, 1, lastDot - 1)

WithoutTld(hostname) == StripTld(hostname, RFind(hostname, "."))

PromptCategory(hostname) == Sanitize(WithoutTld(StripWww(hostname)))

\* The two assistant messages of the scrape branch.
ScrapedMessage(url, n) ==
    "Understood. I have processed the URL " \o url \o ". Its content (found "
    \o ToString(n) \o " chunks) has been scraped and stored in the VDB."

ScrapeFailedMessage(url) ==
    "I attempted to process the URL " \o url
    \o ", but failed to scrape or embed any content. It might be inaccessible or have no extractable text."

ScrapeReport(url, doc_ids) ==
    IF doc_ids # <<>> THEN ScrapedMessage(url, Len(doc_ids)) ELSE ScrapeFailedMessage(url)

NoDocumentsText == "No specific documents found in VDB for your query in that category."

\* sep.join(parts)
RECURSIVE Join(_, _)
Join(sep, parts) ==
    IF parts = <<>> THEN ""
    ELSE IF Len(parts) = 1 THEN parts[1]
    ELSE parts[1] \o sep \o Join(sep, Tail(parts))

\* VdbResultsText without the test of the error key.
VdbResultsText_NoError(vdb_info_dict) ==
    IF Len(vdb_info_dict.documents) > 0 /\ vdb_info_dict.documents[1] # <<>>
    THEN Join("\n---\n", vdb_info_dict.documents[1])
    ELSE NoDocumentsText

\* vdb_results_text for the dict query_information returned.
VdbResultsText(vdb_info_dict) ==
    IF TruthyStr(vdb_info_dict.error)
    THEN NoDocumentsText \o " (Error from VDB: " \o vdb_info_dict.error[1] \o ")"
    ELSE IF Len(vdb_info_dict.documents) > 0 /\ vdb_info_dict.documents[1] # <<>>
    THEN Join("\n---\n", vdb_info_dict.documents[1])
    ELSE NoDocumentsText

\* messages_for_synthesis: the turn's messages, the raw tool request as an
\* assistant message, and the injected system message.
MessagesForSynthesis(turn_messages, initial_response, query, category, results_text, input) ==
    turn_messages \o
    << Msg("assistant", initial_response),
       Msg("system",
           "You previously decided to search the VDB category \"" \o category
           \o "\" with the query \"" \o query \o "\". "
           \o "The VDB returned the following information:\n---\n" \o results_text \o "\n---\n"
           \o "Based on this, please now provide a comprehensive answer to the user's original question: \""
           \o input \o "\". "
           \o "Answer directly without mentioning the VDB search process or tool formats.") >>

FallbackMessage == "I encountered an issue processing that request fully."
ApiErrorMessage == "Sorry, I encountered an API error."
UnexpectedErrorMessage == "Sorry, an unexpected error occurred."

\* RecordTurn without the else branch: no assistant message when there is
\* no answer.
RecordTurn_NoFallback(history, input, answer) ==
    IF answer # None
    THEN history \o << Msg("user", input), Msg("assistant", answer[1]) >>
    ELSE Append(history, Msg("user", input))

\* The end of the try block: the user message and the assistant answer, or
\* the fallback sentence when there is none.
RecordTurn(history, input, answer) ==
    history \o << Msg("user", input),
                  Msg("assistant", IF answer # None THEN answer[1] ELSE FallbackMessage) >>

\* OnAPIError that records the user message only.
OnAPIError_UserOnly(history, input) == Append(history, Msg("user", input))

\* except openai.APIError
OnAPIError(history, input) ==
    history \o << Msg("user", input), Msg("assistant", ApiErrorMessage) >>

\* except Exception
OnException(history, input) ==
    history \o << Msg("user", input), Msg("assistant", UnexpectedErrorMessage) >>

\* Dispatch without the elif: a query request is answered directly.
Dispatch_NoQuery(parsed_url, parsed_vdb) ==
    IF TruthyStr(parsed_url) THEN "Scraping" ELSE "DirectAnswer"

\* The branch taken on the two parse results: if / elif / else.
Dispatch(parsed_url, parsed_vdb) ==
    IF TruthyStr(parsed_url) THEN "Scraping"
    ELSE IF TruthyTuple(parsed_vdb) THEN "Querying"
    ELSE "DirectAnswer"

(***************************************************************************)
(* The state of the process.                                               *)
(***************************************************************************)
VARIABLES
    pc,                             \* where run_chat_loop is
    conversation_messages,          \* the persistent history
    user_input,                     \* locals of the loop body
    current_turn_messages,
    assistant_response_for_history,
    llm_initial_response,
    parsed_url_to_scrape,
    parsed_vdb_params,
    vdb_info_dict,
    messages_for_synthesis,
    collections,                    \* the store
    next_uuid,                      \* the next fresh identifier
    turns,                          \* accepted turns so far
    trace,                          \* the states the current turn went through
    calls                           \* the collaborator calls of the current turn

vars == <<pc, conversation_messages, user_input, current_turn_messages,
          assistant_response_for_history, llm_initial_response,
          parsed_url_to_scrape, parsed_vdb_params, vdb_info_dict,
          messages_for_synthesis, collections, next_uuid, turns, trace, calls>>

turn_locals == <<current_turn_messages, assistant_response_for_history,
                 llm_initial_response, parsed_url_to_scrape, parsed_vdb_params,
                 vdb_info_dict, messages_for_synthesis>>

store_vars == <<collections, next_uuid>>

(***************************************************************************)
(* The inputs of the model.                                                *)
(***************************************************************************)
MaxTurns == 2

\* Lines typed at the prompt.
UserLines == {"", "   ", "exit", " QUIT ", " What is FIB? "}

\* What the first completion may answer.
FirstTexts ==
    { "Hello.",
      " TOOL_REQUEST: scrape_url(url=\"https://www.fib.upc.edu\")\n",
      "TOOL_REQUEST: scrape_url(url=\"https://fib.upc.edu/en\")",
      "TOOL_REQUEST: scrape_url(url=\"\")",
      "TOOL_REQUEST: scrape_url(url=\")",
      "TOOL_REQUEST: get_from_vdb(query=\"FIB\", category=\"fib_upc\")",
      "TOOL_REQUEST: get_from_vdb(category=\"www_fib_upc_edu\", query=\"FIB\")",
      "TOOL_REQUEST: get_from_vdb(query=\"\", category=\"www_fib_upc_edu\")",
      "TOOL_REQUEST: get_from_vdb(query=\"\", category=\"\")",
      "TOOL_REQUEST: get_from_vdb(query=\"FIB\")",
      "TOOL_REQUEST: get_from_vdb(category=\"fib_upc\")",
      " \n" }

\* What the second completion may answer.
SecondTexts ==
    { "FIB is a school.",
      "TOOL_REQUEST: get_from_vdb(query=\"FIB\", category=\"fib_upc\")" }

\* A completion call returns a message whose content is a text or None, or
\* raises openai.APIError, or raises something else.
Completions(texts) ==
    {[kind |-> "returned", content |-> Some(t)] : t \in texts}
    \cup {[kind |-> k, content |-> None] : k \in {"returned", "APIError", "Exception"}}

\* What the fetch and the paragraph extraction may give.
FetchOutcomes ==
    { [ok |-> FALSE, paragraphs |-> <<>>],
      [ok |-> TRUE, paragraphs |-> <<"">>],
      [ok |-> TRUE, paragraphs |-> <<"FIB is a school.", "", "It is in Barcelona.">>] }

Init ==
    /\ pc = "AwaitingInput"
    /\ conversation_messages = << Msg("system", system_message_content) >>
    /\ user_input = ""
    /\ current_turn_messages = <<>>
    /\ assistant_response_for_history = None
    /\ llm_initial_response = ""
    /\ parsed_url_to_scrape = None
    /\ parsed_vdb_params = None
    /\ vdb_info_dict = [error |-> None, documents |-> <<>>]
    /\ messages_for_synthesis = <<>>
    /\ collections = <<>>
    /\ next_uuid = 1
    /\ turns = 0
    /\ trace = <<>>
    /\ calls = <<>>

(***************************************************************************)
(* run_chat_loop.                                                          *)
(***************************************************************************)

\* The turn is over: the history is updated and the loop reads a line again.
TurnComplete(history) ==
    /\ conversation_messages' = history
    /\ pc' = "AwaitingInput"
    /\ trace' = Append(trace, "TurnComplete")

\* ReadLine without the test of the empty line: an empty line starts a turn.
ReadLine_NoEmptyTest(input) ==
    /\ user_input' = input
    /\ IF Lower(input) \in {"exit", "quit"}
       THEN /\ pc' = "Exited"
            /\ UNCHANGED <<conversation_messages, turn_locals, turns, trace, calls>>
       ELSE /\ turns < MaxTurns
            /\ turns' = turns + 1
            /\ current_turn_messages' = Append(conversation_messages, Msg("user", input))
            /\ assistant_response_for_history' = None
            /\ pc' = "AwaitingModelDecision"
            /\ trace' = <<"AwaitingModelDecision">>
            /\ calls' = <<>>
            /\ UNCHANGED <<conversation_messages, llm_initial_response,
                           parsed_url_to_scrape, parsed_vdb_params, vdb_info_dict,
                           messages_for_synthesis>>

\* The exit/quit test, the empty test and the start of a turn.
ReadLine(input) ==
    /\ user_input' = input
    /\ IF Lower(input) \in {"exit", "quit"}
       THEN /\ pc' = "Exited"
            /\ UNCHANGED <<conversation_messages, turn_locals, turns, trace, calls>>
       ELSE IF input = ""
       THEN UNCHANGED <<pc, conversation_messages, turn_locals, turns, trace, calls>>
       ELSE /\ turns < MaxTurns
            /\ turns' = turns + 1
            /\ current_turn_messages' = Append(conversation_messages, Msg("user", input))
            /\ assistant_response_for_history' = None
            /\ pc' = "AwaitingModelDecision"
            /\ trace' = <<"AwaitingModelDecision">>
            /\ calls' = <<>>
            /\ UNCHANGED <<conversation_messages, llm_initial_response,
                           parsed_url_to_scrape, parsed_vdb_params, vdb_info_dict,
                           messages_for_synthesis>>

\* input("You: ").strip() and what follows it.
ReadInput ==
    /\ pc = "AwaitingInput"
    /\ \E line \in UserLines : ReadLine(Strip(line))
    /\ UNCHANGED store_vars

\* The branch on the two parse results.
Branch(text, url, params) ==
    /\ llm_initial_response' = text
    /\ parsed_url_to_scrape' = url
    /\ parsed_vdb_params' = params
    /\ pc' = Dispatch(url, params)
    /\ trace' = Append(trace, Dispatch(url, params))
    /\ UNCHANGED conversation_messages

\* The two parses of the stripped text of the first completion.
Decide(text) == Branch(text, parse_scrape_url_request(text), parse_get_from_vdb_request(text))

\* The first completion, the two parses and the branch.  A content of None
\* fails in .strip() and is handled by "except Exception".
FirstCompletion ==
    /\ pc = "AwaitingModelDecision"
    /\ \E response \in Completions(FirstTexts) :
         /\ calls' = Append(calls, Completed("chat.completions.create",
                                             <<current_turn_messages>>,
                                             response.kind, response.content))
         /\ IF response.kind = "APIError"
            THEN /\ TurnComplete(OnAPIError(conversation_messages, user_input))
                 /\ UNCHANGED <<llm_initial_response, parsed_url_to_scrape,
                                parsed_vdb_params>>
            ELSE IF response.kind = "Exception" \/ response.content = None
            THEN /\ TurnComplete(OnException(conversation_messages, user_input))
                 /\ UNCHANGED <<llm_initial_response, parsed_url_to_scrape,
                                parsed_vdb_params>>
            ELSE Decide(Strip(response.content[1]))
    /\ UNCHANGED <<user_input, current_turn_messages, assistant_response_for_history,
                   vdb_info_dict, messages_for_synthesis, store_vars, turns>>

\* The try block ends with an answer: it is recorded with the user message.
Answered(answer) ==
    /\ assistant_response_for_history' = answer
    /\ TurnComplete(RecordTurn(conversation_messages, user_input, answer))

\* DirectAnswer that leaves assistant_response_for_history at None.
DirectAnswer_NoText ==
    /\ pc = "DirectAnswer"
    /\ Answered(None)
    /\ UNCHANGED <<user_input, current_turn_messages, llm_initial_response,
                   parsed_url_to_scrape, parsed_vdb_params, vdb_info_dict,
                   messages_for_synthesis, store_vars, turns, calls>>

\* else: the first completion's text is the answer.
DirectAnswer ==
    /\ pc = "DirectAnswer"
    /\ Answered(Some(llm_initial_response))
    /\ UNCHANGED <<user_input, current_turn_messages, llm_initial_response,
                   parsed_url_to_scrape, parsed_vdb_params, vdb_info_dict,
                   messages_for_synthesis, store_vars, turns, calls>>

\* Scraped that asks for a synthesis after the Ingester returned.
Scraped_ThenSynthesis(url, r) ==
    /\ collections' = r.collections
    /\ next_uuid' = r.next_uuid
    /\ calls' = calls \o << Completed("scrape_and_embed_website", <<url>>,
                                      IF r.raised THEN "Exception" ELSE "returned",
                                      r.doc_ids) >>
                      \o r.calls
    /\ IF r.raised
       THEN /\ TurnComplete(OnException(conversation_messages, user_input))
            /\ UNCHANGED assistant_response_for_history
       ELSE /\ pc' = "AwaitingSynthesis"
            /\ trace' = Append(trace, "AwaitingSynthesis")
            /\ UNCHANGED <<conversation_messages, assistant_response_for_history>>

\* What follows the return of scrape_and_embed_website(url): the report, or
\* "except Exception" when the call raised.
Scraped(url, r) ==
    /\ collections' = r.collections
    /\ next_uuid' = r.next_uuid
    /\ calls' = calls \o << Completed("scrape_and_embed_website", <<url>>,
                                      IF r.raised THEN "Exception" ELSE "returned",
                                      r.doc_ids) >>
                      \o r.calls
    /\ IF r.raised
       THEN /\ TurnComplete(OnException(conversation_messages, user_input))
            /\ UNCHANGED assistant_response_for_history
       ELSE Answered(Some(ScrapeReport(url, r.doc_ids)))

\* if parsed_url_to_scrape: the Ingester and the report.
Scraping ==
    /\ pc = "Scraping"
    /\ \E fetch \in FetchOutcomes, outcome \in ScrapeStoreOutcomes :
         Scraped(parsed_url_to_scrape[1],
                 scrape_and_embed_website(parsed_url_to_scrape[1], fetch, outcome,
                                          collections, next_uuid))
    /\ UNCHANGED <<user_input, current_turn_messages, llm_initial_response,
                   parsed_url_to_scrape, parsed_vdb_params, vdb_info_dict,
                   messages_for_synthesis, turns>>

\* Queried that asks the store again when query_information raised.
Queried_Retry(vdb_query, vdb_category, r) ==
    /\ calls' = calls \o << Completed("query_information", <<vdb_query, vdb_category>>,
                                      IF r.raised THEN "Exception" ELSE "returned", None) >>
                      \o r.calls
    /\ IF r.raised
       THEN UNCHANGED <<pc, trace, conversation_messages, vdb_info_dict,
                        messages_for_synthesis>>
       ELSE /\ vdb_info_dict' = r.result
            /\ messages_for_synthesis' =
                   MessagesForSynthesis(current_turn_messages, llm_initial_response,
                                        vdb_query, vdb_category,
                                        VdbResultsText(r.result), user_input)
            /\ pc' = "AwaitingSynthesis"
            /\ trace' = Append(trace, "AwaitingSynthesis")
            /\ UNCHANGED conversation_messages

\* What follows the return of query_information: the messages for the
\* synthesis, or "except Exception" when the call raised.
Queried(vdb_query, vdb_category, r) ==
    /\ calls' = calls \o << Completed("query_information", <<vdb_query, vdb_category>>,
                                      IF r.raised THEN "Exception" ELSE "returned", None) >>
                      \o r.calls
    /\ IF r.raised
       THEN /\ TurnComplete(OnException(conversation_messages, user_input))
            /\ UNCHANGED <<vdb_info_dict, messages_for_synthesis>>
       ELSE /\ vdb_info_dict' = r.result
            /\ messages_for_synthesis' =
                   MessagesForSynthesis(current_turn_messages, llm_initial_response,
                                        vdb_query, vdb_category,
                                        VdbResultsText(r.result), user_input)
            /\ pc' = "AwaitingSynthesis"
            /\ trace' = Append(trace, "AwaitingSynthesis")
            /\ UNCHANGED conversation_messages

\* elif parsed_vdb_params: the Query Adapter and the messages for synthesis.
Querying ==
    /\ pc = "Querying"
    /\ \E outcome \in QueryStoreOutcomes :
         Queried(parsed_vdb_params[1], parsed_vdb_params[2],
                 query_information(parsed_vdb_params[1], parsed_vdb_params[2],
                                   outcome, collections))
    /\ UNCHANGED <<user_input, current_turn_messages, assistant_response_for_history,
                   llm_initial_response, parsed_url_to_scrape, parsed_vdb_params,
                   store_vars, turns>>

\* Synthesis that records the answer after the messages for synthesis.
Synthesis_RecordsScratch ==
    /\ pc = "AwaitingSynthesis"
    /\ \E response \in Completions(SecondTexts) :
         /\ calls' = Append(calls, Completed("chat.completions.create",
                                             <<messages_for_synthesis>>,
                                             response.kind, response.content))
         /\ IF response.kind = "APIError"
            THEN /\ TurnComplete(OnAPIError(conversation_messages, user_input))
                 /\ UNCHANGED assistant_response_for_history
            ELSE IF response.kind = "Exception"
            THEN /\ TurnComplete(OnException(conversation_messages, user_input))
                 /\ UNCHANGED assistant_response_for_history
            ELSE /\ assistant_response_for_history' = response.content
                 /\ TurnComplete(Append(messages_for_synthesis,
                                        Msg("assistant",
                                            IF response.content # None
                                            THEN response.content[1]
                                            ELSE FallbackMessage)))
    /\ UNCHANGED <<user_input, current_turn_messages, llm_initial_response,
                   parsed_url_to_scrape, parsed_vdb_params, vdb_info_dict,
                   messages_for_synthesis, store_vars, turns>>

\* The second completion: its content, unchanged, is the answer.
Synthesis ==
    /\ pc = "AwaitingSynthesis"
    /\ \E response \in Completions(SecondTexts) :
         /\ calls' = Append(calls, Completed("chat.completions.create",
                                             <<messages_for_synthesis>>,
                                             response.kind, response.content))
         /\ IF response.kind = "APIError"
            THEN /\ TurnComplete(OnAPIError(conversation_messages, user_input))
                 /\ UNCHANGED assistant_response_for_history
            ELSE IF response.kind = "Exception"
            THEN /\ TurnComplete(OnException(conversation_messages, user_input))
                 /\ UNCHANGED assistant_response_for_history
            ELSE Answered(response.content)
    /\ UNCHANGED <<user_input, current_turn_messages, llm_initial_response,
                   parsed_url_to_scrape, parsed_vdb_params, vdb_info_dict,
                   messages_for_synthesis, store_vars, turns>>

Next ==
    \/ ReadInput
    \/ FirstCompletion
    \/ DirectAnswer
    \/ Scraping
    \/ Querying
    \/ Synthesis

Spec == Init /\ [][Next]_vars

(***************************************************************************)
(* The chat loop when every collaborator call returns or fails: a step     *)
(* that can be taken is taken.  Reading a line is left to the user.        *)
(***************************************************************************)
Fairness ==
    /\ WF_vars(FirstCompletion)
    /\ WF_vars(DirectAnswer)
    /\ WF_vars(Scraping)
    /\ WF_vars(Querying)
    /\ WF_vars(Synthesis)

SpecLive == Init /\ [][Next]_vars /\ Fairness

(***************************************************************************)
(* tools.py run as a script: one call of scrape_and_embed_website on the   *)
(* empty store.  The script's target_url is drawn from IngestUrls.         *)
(***************************************************************************)
MaxHostLen == 3

HostAlphabet == {"a", "Z", ".", "_", "-", "~"}

RECURSIVE Rep(_, _)
Rep(c, n) == IF n = 0 THEN "" ELSE c \o Rep(c, n - 1)

RECURSIVE StringsOfLen(_)
StringsOfLen(n) ==
    IF n = 0 THEN {""} ELSE {c \o s : c \in HostAlphabet, s \in StringsOfLen(n - 1)}

\* Every host name over HostAlphabet of at most MaxHostLen characters.
ShortHostnames == UNION {StringsOfLen(n) : n \in 0..MaxHostLen}

\* Host names whose length is around the two limits of the derivation.
LongHostnames ==
    {p \o Rep("a", n) \o q : p \in {"", "www.", "~"}, q \in {"", ".", ".com"},
                             n \in (TRUNCATE_LEN - 3)..(MAX_LEN + 1)}

IngestUrls ==
    {"https://" \o h \o "/page" : h \in ShortHostnames \cup LongHostnames}
    \cup {"https://www.fib.upc.edu", "https://another.domain.co.uk",
          "https://WWW.FIB.UPC.EDU:8080/a?b#c", "www.fib.upc.edu/no-scheme", ""}

\* What follows the return of the script's call.
Ingested(url, r) ==
    /\ collections' = r.collections
    /\ next_uuid' = r.next_uuid
    /\ calls' = << Completed("scrape_and_embed_website", <<url>>,
                             IF r.raised THEN "Exception" ELSE "returned", r.doc_ids) >>
                \o r.calls
    /\ pc' = "Exited"

\* if __name__ == '__main__': embedded_doc_ids = scrape_and_embed_website(target_url)
ToolsMain ==
    /\ pc = "AwaitingInput"
    /\ calls = <<>>
    /\ turns = 0
    /\ \E target_url \in IngestUrls, fetch \in FetchOutcomes, outcome \in ScrapeStoreOutcomes :
         Ingested(target_url,
                  scrape_and_embed_website(target_url, fetch, outcome, collections, next_uuid))
    /\ UNCHANGED <<conversation_messages, user_input, turn_locals, turns, trace>>

SpecIngest == Init /\ [][ToolsMain]_vars

(***************************************************************************)
(* The two parsers applied to one model output.  The output is a tool      *)
(* request written in the format of the system message around a URL or a   *)
(* query and a category, or such a request with a deviation.               *)
(***************************************************************************)
MaxUrlTokens == 2
MaxArgTokens == 1

\* The pieces URLs are made of; none holds a double quote.
UrlTokens == {"a", "/", ")", " x", "https://fib.upc.edu"}

\* The pieces queries and categories are made of; none holds a double quote.
ArgTokens == {"a", ", ", "query=", "category="}

RECURSIVE TokenStrings(_, _)
TokenStrings(tokens, n) ==
    IF n = 0 THEN {""}
    ELSE TokenStrings(tokens, n - 1)
         \cup {t \o s : t \in tokens, s \in TokenStrings(tokens, n - 1)}

Urls == TokenStrings(UrlTokens, MaxUrlTokens)
Args == TokenStrings(ArgTokens, MaxArgTokens)

\* TOOL_REQUEST: scrape_url(url="THE_URL_HERE")
ScrapeRequest(url) == SCRAPE_URL_PREFIX \o "\"" \o url \o "\"" \o TOOL_REQUEST_SUFFIX

\* TOOL_REQUEST: get_from_vdb(query="YOUR_SEARCH_QUERY", category="DERIVED_CATEGORY_NAME")
QueryFirst(query, category) ==
    GET_FROM_VDB_PREFIX \o "query=\"" \o query \o "\", category=\"" \o category \o "\""
    \o TOOL_REQUEST_SUFFIX

\* The same request with the two arguments swapped.
CategoryFirst(query, category) ==
    GET_FROM_VDB_PREFIX \o "category=\"" \o category \o "\", query=\"" \o query \o "\""
    \o TOOL_REQUEST_SUFFIX

\* The deviations of a scrape request.
MissingParenthesis(url) == SCRAPE_URL_PREFIX \o "\"" \o url \o "\""
Unquoted(url) == SCRAPE_URL_PREFIX \o url \o TOOL_REQUEST_SUFFIX
TextsBefore == {" ", "Sure. "}
TextsAfter == {" ", " Done.", "\n" \o ScrapeRequest("b")}
WithTextBefore(url) == {b \o ScrapeRequest(url) : b \in TextsBefore}
WithTextAfter(url) == {ScrapeRequest(url) \o a : a \in TextsAfter}
Deviations(url) ==
    {MissingParenthesis(url), Unquoted(url)} \cup WithTextBefore(url) \cup WithTextAfter(url)

\* Inner texts that are not one double-quoted string.
OddInners == {"\"", "\"a\" junk \"b\"", "a\"", "\"a", "\"\"\""}

ParserInputs ==
    {ScrapeRequest(u) : u \in Urls}
    \cup UNION {Deviations(u) : u \in Urls}
    \cup {QueryFirst(q, c) : q \in Args, c \in Args}
    \cup {CategoryFirst(q, c) : q \in Args, c \in Args}
    \cup {SCRAPE_URL_PREFIX \o inner \o TOOL_REQUEST_SUFFIX : inner \in OddInners}

\* The two parsers applied to llm_output, as lines 99-100 apply them.
Parsed(llm_output) ==
    /\ llm_initial_response' = llm_output
    /\ parsed_url_to_scrape' = parse_scrape_url_request(llm_output)
    /\ parsed_vdb_params' = parse_get_from_vdb_request(llm_output)
    /\ pc' = "Exited"

ParseOutput ==
    /\ pc = "AwaitingInput"
    /\ turns = 0
    /\ \E llm_output \in ParserInputs : Parsed(llm_output)
    /\ UNCHANGED <<conversation_messages, user_input, current_turn_messages,
                   assistant_response_for_history, vdb_info_dict,
                   messages_for_synthesis, store_vars, turns, trace, calls>>

SpecParse == Init /\ [][ParseOutput]_vars

(***************************************************************************)
(* Vocabulary of the properties.                                           *)
(***************************************************************************)
Last(seq) == seq[Len(seq)]

\* The current turn has ended / is in progress.
TurnDone == trace # <<>> /\ Last(trace) = "TurnComplete"
InTurn == trace # <<>> /\ Last(trace) # "TurnComplete"

\* The first completion of the current turn returned a text and the branch
\* on it was taken, so llm_initial_response is this turn's text.
Decided == Len(trace) >= 2 /\ trace[2] # "TurnComplete"

CallsOf(fn) == SelectSeq(calls, LAMBDA c : c.fn = fn)

\* The calls run_chat_loop itself makes, in order.
TopLevelFns == {"chat.completions.create", "scrape_and_embed_website", "query_information"}
TopLevelCalls == SelectSeq(calls, LAMBDA c : c.fn \in TopLevelFns)
Fns(seq) == [i \in 1..Len(seq) |-> seq[i].fn]

StoreFns == {"get_or_create_collection", "collection.add", "get_collection",
             "collection.query"}

\* ^[A-Za-z0-9_-]{3,63}$
NameChars == "abcdefghijklmnopqrstuvwxyzABCDEFGHIJKLMNOPQRSTUVWXYZ0123456789_-"
ValidName(c) ==
    /\ Len(c) >= 3
    /\ Len(c) <= 63
    /\ \A i \in 1..Len(c) : Contains(NameChars, CharAt(c, i))

\* Every item of the store, with the collection that holds it.
StoredItems ==
    UNION { {[collection |-> c, item |-> collections[c][i]] : i \in 1..Len(collections[c])} :
            c \in DOMAIN collections }

(***************************************************************************)
(* Properties of run_chat_loop.                                            *)
(***************************************************************************)

\* C1: every accepted turn appends exactly two messages to the history, the
\* user message and then one assistant message, on every branch; nothing is
\* appended while the turn is in progress.
C1_TwoMessagesPerTurn ==
    /\ Len(conversation_messages) = 1 + 2 * (IF InTurn THEN turns - 1 ELSE turns)
    /\ InTurn => current_turn_messages = Append(conversation_messages, Last(current_turn_messages))
    /\ trace # <<>> => Last(current_turn_messages).role = "user"
    /\ TurnDone =>
         /\ Len(conversation_messages) = Len(current_turn_messages) + 1
         /\ SubSeq(conversation_messages, 1, Len(current_turn_messages)) = current_turn_messages
         /\ Last(conversation_messages).role = "assistant"

\* C1 witness: the second turn ended in the scrape branch by an unexpected
\* failure, and the history holds five messages.
C1_Witness ==
    /\ turns = 2
    /\ trace = <<"AwaitingModelDecision", "Scraping", "TurnComplete">>
    /\ Last(conversation_messages).content = UnexpectedErrorMessage
    /\ Len(conversation_messages) = 5

\* C2: a failed completion call, the first or the second of a turn, ends the
\* turn at once with the user message and the fixed apology in the history,
\* and the loop is back at its prompt: it ends only when the user types exit
\* or quit.
C2_CompletionFailureHandled ==
    /\ \A i \in 1..Len(calls) :
         (calls[i].fn = "chat.completions.create" /\ calls[i].kind # "returned") =>
            /\ i = Len(calls)
            /\ TurnDone
            /\ conversation_messages =
                 Append(current_turn_messages,
                        Msg("assistant", IF calls[i].kind = "APIError" THEN ApiErrorMessage
                                         ELSE UnexpectedErrorMessage))
            /\ pc \in {"AwaitingInput", "Exited"}
    /\ pc = "Exited" => Lower(user_input) \in {"exit", "quit"}

\* C2 witness: the first turn ended with the apology for a failed second
\* completion, and the loop has accepted the next turn.
C2_Witness ==
    /\ pc = "AwaitingModelDecision"
    /\ turns = 2
    /\ Len(conversation_messages) = 3
    /\ conversation_messages[3] = Msg("assistant", ApiErrorMessage)
    /\ llm_initial_response = "TOOL_REQUEST: get_from_vdb(query=\"FIB\", category=\"fib_upc\")"

\* C3: a first completion that matches the scrape grammar, whatever URL the
\* parser extracts, leads to one call of the Ingester with that URL, no
\* second completion, and the scrape report as the assistant message.
C3_ScrapeRequestIngests ==
    (Decided /\ parse_scrape_url_request(llm_initial_response) # None) =>
        /\ trace[2] = "Scraping"
        /\ TurnDone =>
             /\ Len(CallsOf("scrape_and_embed_website")) = 1
             /\ CallsOf("scrape_and_embed_website")[1].args
                    = parse_scrape_url_request(llm_initial_response)
             /\ Len(CallsOf("chat.completions.create")) = 1
             /\ \/ Last(conversation_messages).content
                      = ScrapeFailedMessage(parse_scrape_url_request(llm_initial_response)[1])
                \/ \E n \in 1..next_uuid :
                      Last(conversation_messages).content
                         = ScrapedMessage(parse_scrape_url_request(llm_initial_response)[1], n)

\* C4: a first completion that matches the query grammar leads to one call of
\* the Query Adapter with the extracted pair and, once it has returned, to
\* one second completion whose content is the assistant message; the order
\* is first completion, Query Adapter, second completion, history append.
C4_QueryFlow ==
    (Decided /\ parse_get_from_vdb_request(llm_initial_response) # None) =>
        /\ trace[2] = "Querying"
        /\ CallsOf("scrape_and_embed_website") = <<>>
        /\ \A i \in 1..Len(calls) :
             calls[i].fn = "query_information" =>
                calls[i].args = parse_get_from_vdb_request(llm_initial_response)
        /\ pc = "Querying" => Fns(TopLevelCalls) = <<"chat.completions.create">>
        /\ pc = "AwaitingSynthesis" =>
             /\ Fns(TopLevelCalls) = <<"chat.completions.create", "query_information">>
             /\ current_turn_messages
                    = Append(conversation_messages, Last(current_turn_messages))
        /\ (TurnDone /\ CallsOf("query_information")[1].kind = "returned") =>
             /\ Fns(TopLevelCalls) = <<"chat.completions.create", "query_information",
                                       "chat.completions.create">>
             /\ trace = <<"AwaitingModelDecision", "Querying", "AwaitingSynthesis",
                          "TurnComplete">>
             /\ Last(calls).fn = "chat.completions.create"
             /\ (Last(calls).kind = "returned" /\ Last(calls).content # None) =>
                    Last(conversation_messages) = Msg("assistant", Last(calls).content[1])

\* C4 witness: a query turn whose Query Adapter returned documents has ended
\* with the second completion's text as the assistant message.
C4_Witness ==
    /\ TurnDone
    /\ trace[2] = "Querying"
    /\ vdb_info_dict.error = None
    /\ vdb_info_dict.documents = << <<"FIB is a school.", "It is in Barcelona.">> >>
    /\ Last(calls).content = Some("FIB is a school.")
    /\ Last(conversation_messages) = Msg("assistant", "FIB is a school.")

\* C5: the assistant message recorded for a turn that went through a VDB
\* query never holds the tool-grammar tokens.
C5_NoToolTokensAfterQuery ==
    (TurnDone /\ trace[2] = "Querying") =>
        /\ ~Contains(Last(conversation_messages).content, "TOOL_REQUEST: scrape_url(")
        /\ ~Contains(Last(conversation_messages).content, "TOOL_REQUEST: get_from_vdb(")

(***************************************************************************)
(* Properties of query_information and of the categories.                  *)
(***************************************************************************)

\* C6: query_information with an empty query text returns the error "Query
\* text cannot be empty" with no documents and makes no call to the store.
C6_EmptyQueryNoStoreCall ==
    \A i \in 1..Len(calls) :
        (calls[i].fn = "query_information" /\ calls[i].args[1] = "") =>
            /\ vdb_info_dict.error = Some("Query text cannot be empty")
            /\ vdb_info_dict.documents = << <<>> >>
            /\ \A j \in 1..Len(calls) : calls[j].fn \notin StoreFns

\* C7: every category passed to the store, by get_or_create_collection and by
\* get_collection, matches ^[A-Za-z0-9_-]{3,63}$.
C7_StoreCategoriesValid ==
    \A i \in 1..Len(calls) :
        calls[i].fn \in {"get_or_create_collection", "get_collection"} =>
            ValidName(calls[i].args[1])

\* C8: two pages whose host names are equal after ignoring one leading "www."
\* are stored in the same collection.
C8_SameHostSameCategory ==
    \A x \in StoredItems, y \in StoredItems :
        StripWww(x.item.metadata.original_category_base)
            = StripWww(y.item.metadata.original_category_base)
        => x.collection = y.collection

\* C9: a page is stored under the category the system message describes:
\* www.fib.upc.edu under fib_upc, another.domain.co.uk under another_domain_co.
C9_StoredUnderPromptCategory ==
    \A x \in StoredItems :
        /\ x.item.metadata.original_category_base = "www.fib.upc.edu"
              => x.collection = "fib_upc"
        /\ x.item.metadata.original_category_base = "another.domain.co.uk"
              => x.collection = "another_domain_co"
        /\ x.item.metadata.original_category_base
              \in {"www.fib.upc.edu", "another.domain.co.uk"}
              => x.collection = PromptCategory(x.item.metadata.original_category_base)

\* C10: for every host name, the category the Ingester derives has a length
\* within [3,63] and holds only characters of [A-Za-z0-9_-].
C10_DerivedCategoryValid ==
    /\ \A i \in 1..Len(calls) :
         calls[i].fn = "get_or_create_collection" => ValidName(calls[i].args[1])
    /\ \A c \in DOMAIN collections : ValidName(c)

\* C10 witness: a page whose host name is longer than 63 characters has been
\* stored.
C10_Witness ==
    \E x \in StoredItems :
        /\ Len(x.item.metadata.original_category_base) > 63
        /\ Len(x.collection) = 60

(***************************************************************************)
(* Properties of scrape_and_embed_website.                                 *)
(***************************************************************************)

\* C11: scrape_and_embed_website never raises to its caller, whether the
\* fetch or a store call fails, so a turn that went through the scrape
\* branch ends with one of the two scrape reports and never with the
\* unexpected-error sentence.
C11_ScrapeNeverRaises ==
    /\ \A i \in 1..Len(calls) :
         calls[i].fn = "scrape_and_embed_website" => calls[i].kind = "returned"
    /\ (TurnDone /\ trace[2] = "Scraping") =>
         /\ Last(conversation_messages).content # UnexpectedErrorMessage
         /\ \/ Last(conversation_messages).content
                  = ScrapeFailedMessage(parsed_url_to_scrape[1])
            \/ \E n \in 1..next_uuid :
                  Last(conversation_messages).content
                     = ScrapedMessage(parsed_url_to_scrape[1], n)

\* The fetch of the logged scrape failed, or the page it returned has no
\* non-empty paragraph.
NothingFetched(log) ==
    \E i \in 1..Len(log) :
        /\ log[i].fn = "requests.get"
        /\ \/ log[i].kind # "returned"
           \/ \A j \in 1..Len(log[i].content) : log[i].content[j] = ""

\* C12: ingesting a page whose fetch fails or that has no non-empty
\* paragraph returns an empty list and leaves the store as it was: no store
\* call is made, no collection is created, no item is written.
C12_NothingFetchedNothingStored ==
    [][ (pc = "Scraping" /\ NothingFetched(calls')) =>
           /\ collections' = collections
           /\ \A i \in 1..Len(calls') : calls'[i].fn \notin StoreFns
           /\ calls'[2] = Completed("scrape_and_embed_website", <<parsed_url_to_scrape[1]>>,
                                   "returned", <<>>)
           /\ Last(conversation_messages').content
                 = ScrapeFailedMessage(parsed_url_to_scrape[1]) ]_vars

\* C12 witness: with a collection already in the store, a turn scraped a page
\* whose only paragraph is empty and reported the failure.
C12_Witness ==
    /\ TurnDone
    /\ trace[2] = "Scraping"
    /\ DOMAIN collections # {}
    /\ Len(calls) = 3
    /\ calls[3] = Completed("requests.get", <<parsed_url_to_scrape[1]>>, "returned", <<"">>)
    /\ Last(conversation_messages).content = ScrapeFailedMessage(parsed_url_to_scrape[1])

\* The items a successful ingestion wrote: the last Len(chunks) items of the
\* collection are the chunks in order, numbered from 0, under the identifiers
\* returned in the same order.
WrittenInOrder(url, chunks, doc_ids, stored) ==
    /\ Len(doc_ids) = Len(chunks)
    /\ Len(stored) >= Len(chunks)
    /\ \A k \in 1..Len(chunks) :
         /\ stored[Len(stored) - Len(chunks) + k].document = chunks[k]
         /\ stored[Len(stored) - Len(chunks) + k].metadata.chunk_index = k - 1
         /\ stored[Len(stored) - Len(chunks) + k].metadata.source_url = url
         /\ stored[Len(stored) - Len(chunks) + k].id = doc_ids[k]

\* One collection.add with the non-empty paragraphs of the page, in order.
OneBatch(url, paragraphs, doc_ids, adds) ==
    /\ Len(adds) = 1
    /\ adds[1].kind = "returned"
    /\ adds[1].args[2] = SelectSeq(paragraphs, LAMBDA p : p # "")
    /\ adds[1].args[1] \in DOMAIN collections
    /\ WrittenInOrder(url, adds[1].args[2], doc_ids, collections[adds[1].args[1]])

\* C13: the store never holds an empty text; a successful ingestion makes
\* exactly one collection.add whose items are the non-empty paragraphs in
\* order of appearance, chunk_index 0..n-1, and returns one identifier per
\* item in the same order, so the count reported to the user is the number
\* of items written.
C13_OneBatchOfNonEmptyChunks ==
    /\ \A x \in StoredItems : x.item.document # ""
    /\ \A x \in StoredItems, y \in StoredItems : x.item.id = y.item.id => x = y
    /\ Len(CallsOf("collection.add")) <= 1
    /\ \A i \in 1..Len(calls) :
         (calls[i].fn = "scrape_and_embed_website" /\ calls[i].content # <<>>) =>
            /\ calls[i].kind = "returned"
            /\ OneBatch(calls[i].args[1], CallsOf("requests.get")[1].content,
                        calls[i].content, CallsOf("collection.add"))
            /\ TurnDone
            /\ Last(conversation_messages).content
                  = ScrapedMessage(calls[i].args[1],
                                   Len(CallsOf("collection.add")[1].args[2]))

\* C13 witness: the second ingestion of a page with an empty paragraph
\* between two texts: the collection holds four items and two chunks are
\* reported.
C13_Witness ==
    /\ TurnDone
    /\ turns = 2
    /\ trace[2] = "Scraping"
    /\ "www_fib_upc_edu" \in DOMAIN collections
    /\ CallsOf("requests.get")[1].content = <<"FIB is a school.", "", "It is in Barcelona.">>
    /\ CallsOf("scrape_and_embed_website")[1].content = <<3, 4>>
    /\ Len(collections["www_fib_upc_edu"]) = 4
    /\ Last(conversation_messages).content
          = ScrapedMessage("https://www.fib.upc.edu", 2)

(***************************************************************************)
(* Properties of the query branch.                                         *)
(***************************************************************************)

\* The turn went on to the synthesis with the no-documents sentence followed
\* by the error text in the injected system message.
SynthesisWithError(message) ==
    /\ Len(trace) >= 3
    /\ trace[3] = "AwaitingSynthesis"
    /\ Last(messages_for_synthesis).role = "system"
    /\ Contains(Last(messages_for_synthesis).content,
                "\n---\n" \o NoDocumentsText \o " (Error from VDB: " \o message \o ")\n---\n")
    /\ TurnDone =>
         /\ Last(calls).fn = "chat.completions.create"
         /\ Last(calls).args = <<messages_for_synthesis>>

\* C14: query_information with a non-empty query and a category that is not
\* a collection of the store returns the store's message as the error and no
\* document, does not raise, and the turn goes on to the second completion
\* with the no-documents sentence and that error text.
C14_AbsentCategoryIsAnError ==
    \A i \in 1..Len(calls) :
        (/\ calls[i].fn = "query_information"
         /\ calls[i].args[1] # ""
         /\ calls[i].args[2] \notin DOMAIN collections) =>
            /\ calls[i].kind = "returned"
            /\ calls[i + 1].fn = "get_collection"
            /\ calls[i + 1].kind # "returned"
            /\ vdb_info_dict.error = calls[i + 1].content
            /\ vdb_info_dict.error # None
            /\ vdb_info_dict.documents = << <<>> >>
            /\ CallsOf("collection.query") = <<>>
            /\ SynthesisWithError(calls[i + 1].content[1])

\* C14 witness: with the page stored under www_fib_upc_edu, a query of the
\* category fib_upc was answered by the second completion.
C14_Witness ==
    /\ TurnDone
    /\ Len(trace) = 4
    /\ DOMAIN collections = {"www_fib_upc_edu"}
    /\ vdb_info_dict.error = Some(NotFoundMessage("fib_upc"))
    /\ CallsOf("query_information")[1].args = <<"FIB", "fib_upc">>
    /\ Last(conversation_messages) = Msg("assistant", "FIB is a school.")

\* C15: a first completion whose text neither parser recognizes, a partial
\* get_from_vdb form included, is answered directly: no tool is called, no
\* second completion is requested, and the text itself is the assistant
\* message of the turn.
C15_UnrecognizedIsDirectAnswer ==
    (/\ Decided
     /\ parse_scrape_url_request(llm_initial_response) = None
     /\ parse_get_from_vdb_request(llm_initial_response) = None) =>
        /\ trace[2] = "DirectAnswer"
        /\ Len(trace) <= 3
        /\ Fns(calls) = <<"chat.completions.create">>
        /\ calls[1].kind = "returned"
        /\ Strip(calls[1].content[1]) = llm_initial_response
        /\ TurnDone =>
             conversation_messages
                = Append(current_turn_messages, Msg("assistant", llm_initial_response))

\* C15 witness: a get_from_vdb form with a category and no query was
\* recorded as the answer of the turn.
C15_Witness ==
    /\ TurnDone
    /\ Decided
    /\ llm_initial_response = "TOOL_REQUEST: get_from_vdb(category=\"fib_upc\")"
    /\ StartsWith(llm_initial_response, GET_FROM_VDB_PREFIX)
    /\ parse_get_from_vdb_request(llm_initial_response) = None
    /\ Last(conversation_messages).content = llm_initial_response

(***************************************************************************)
(* Properties of the two parsers.                                          *)
(***************************************************************************)

\* C16: the scrape request written around a quote-free URL parses to exactly
\* that URL, and every deviation of it (no closing parenthesis, no quotes,
\* text before the prefix, text after the closing parenthesis) parses to no
\* match.
C16_ScrapeRoundTrip ==
    pc = "Exited" =>
        \A u \in Urls :
            /\ llm_initial_response = ScrapeRequest(u) => parsed_url_to_scrape = Some(u)
            /\ llm_initial_response \in Deviations(u) => parsed_url_to_scrape = None

\* C17: for quote-free q and c, the query request with the query first and
\* the one with the category first both parse to the pair (q, c).
C17_ArgumentOrderIndependent ==
    pc = "Exited" =>
        \A q \in Args, c \in Args :
            llm_initial_response \in {QueryFirst(q, c), CategoryFirst(q, c)}
                => parsed_vdb_params = <<q, c>>

(***************************************************************************)
(* Properties of the loop.                                                 *)
(***************************************************************************)

\* C18: a line that is empty after strip() leaves the history, the call log
\* and the store as they are and the loop at its prompt; a line equal to
\* exit or quit in any letter case ends the loop, also without a call and
\* with the history as it is; the loop ends in no other way.
C18_EmptyAndExitLines ==
    [][ /\ (pc = "AwaitingInput" /\ user_input' = "") =>
              /\ pc' = "AwaitingInput"
              /\ UNCHANGED <<conversation_messages, calls, trace, turns, store_vars>>
        /\ (pc = "AwaitingInput" /\ Lower(user_input') \in {"exit", "quit"}) =>
              /\ pc' = "Exited"
              /\ UNCHANGED <<conversation_messages, calls, trace, turns, store_vars>>
        /\ pc' = "Exited" => Lower(user_input') \in {"exit", "quit"}
        /\ pc = "Exited" => pc' = "Exited" ]_vars

\* C18 witness: after one completed turn an empty line was read: the loop is
\* at its prompt with the three messages of that turn.
C18_Witness ==
    /\ pc = "AwaitingInput"
    /\ user_input = ""
    /\ turns = 1
    /\ TurnDone
    /\ Len(conversation_messages) = 3

\* A double quote, a text without any double quote, a double quote.
IsQuotedString(s) ==
    /\ Len(s) >= 2
    /\ CharAt(s, 1) = "\""
    /\ CharAt(s, Len(s)) = "\""
    /\ ~Contains(Slice(s, 2, Len(s) - 1), "\"")

\* C19: the scrape parser returns a match only when the text between the
\* prefix and the closing parenthesis is exactly one double-quoted string; a
\* single double quote, or quoted parts with text between them, is no match.
C19_OnlyOneQuotedString ==
    pc = "Exited" =>
        /\ parsed_url_to_scrape # None =>
              IsQuotedString(Inner(llm_initial_response, SCRAPE_URL_PREFIX))
        /\ \A inner \in OddInners :
              llm_initial_response = SCRAPE_URL_PREFIX \o inner \o TOOL_REQUEST_SUFFIX
                 => parsed_url_to_scrape = None

\* The functions run_chat_loop and the two tools call at most once a turn.
OncePerTurnFns == StoreFns \cup {"requests.get", "scrape_and_embed_website", "query_information"}

\* C20: in one turn there are at most two completion calls, the second only
\* after a query, and at most one tool call, the Ingester or the Query
\* Adapter; no call is made again after a failure, the failure of a call of
\* run_chat_loop ends the turn, and no line is read while a turn is in
\* progress.
C20_BoundedCallsNoRetry ==
    /\ Len(CallsOf("chat.completions.create")) <= 2
    /\ Len(CallsOf("chat.completions.create")) = 2 =>
          Fns(TopLevelCalls) = <<"chat.completions.create", "query_information",
                                 "chat.completions.create">>
    /\ Len(CallsOf("scrape_and_embed_website")) + Len(CallsOf("query_information")) <= 1
    /\ \A fn \in OncePerTurnFns : Len(CallsOf(fn)) <= 1
    /\ \A i \in 1..Len(calls) :
         calls[i].kind # "returned" =>
            /\ \A j \in (i + 1)..Len(calls) : calls[j].fn # calls[i].fn
            /\ calls[i].fn \in TopLevelFns =>
                  /\ TurnDone
                  /\ \A j \in (i + 1)..Len(calls) : calls[j].fn \notin TopLevelFns
    /\ InTurn => pc \notin {"AwaitingInput", "Exited"}

\* C20 witness: the store raised in collection.query and the turn ended with
\* the apology after one completion and one call of the Query Adapter.
C20_Witness ==
    /\ TurnDone
    /\ Fns(calls) = <<"chat.completions.create", "query_information", "get_collection",
                      "collection.query">>
    /\ Last(calls).kind = "Exception"
    /\ Last(conversation_messages).content = UnexpectedErrorMessage

(***************************************************************************)
(* Properties of the order of a turn and of the history.                   *)
(***************************************************************************)

\* The orders of a turn that goes through one branch.
BranchOrders ==
    { <<"AwaitingModelDecision", "DirectAnswer", "TurnComplete">>,
      <<"AwaitingModelDecision", "Scraping", "TurnComplete">>,
      <<"AwaitingModelDecision", "Querying", "AwaitingSynthesis", "TurnComplete">>,
      <<"AwaitingModelDecision", "Querying", "TurnComplete">> }

\* The order of a turn whose first completion failed.
FailedOrder == <<"AwaitingModelDecision", "TurnComplete">>

\* The beginnings of the orders above.
IsPrefix(s, t) == Len(s) <= Len(t) /\ s = SubSeq(t, 1, Len(s))

\* Every accepted turn reaches TurnComplete, with its two messages in the
\* history.
TurnsComplete ==
    \A n \in 1..MaxTurns :
        (turns = n /\ InTurn)
            ~> (turns = n /\ TurnDone /\ Len(conversation_messages) = 1 + 2 * n)

\* C21 as stated: every completed turn went through exactly one of
\* DirectAnswer, Scraping and Querying between AwaitingModelDecision and
\* TurnComplete, AwaitingSynthesis only after Querying, and every accepted
\* turn reaches TurnComplete.
C21_EveryTurnThroughOneBranch ==
    /\ [](TurnDone => trace \in BranchOrders)
    /\ TurnsComplete

\* C21 amended: a turn whose first completion fails goes from
\* AwaitingModelDecision straight to TurnComplete; every other turn goes
\* through exactly one of DirectAnswer, Scraping and Querying, through
\* AwaitingSynthesis only after Querying and unless the Query Adapter
\* raised, and every accepted turn reaches TurnComplete with the history
\* updated.
C21_StateOrder ==
    /\ [](/\ InTurn => /\ pc = Last(trace)
                       /\ \E order \in BranchOrders : IsPrefix(trace, order)
          /\ TurnDone =>
               /\ trace \in BranchOrders \cup {FailedOrder}
               /\ trace = FailedOrder <=>
                     (calls[1].kind # "returned" \/ calls[1].content = None)
               /\ trace = <<"AwaitingModelDecision", "Querying", "TurnComplete">> <=>
                     (/\ CallsOf("query_information") # <<>>
                      /\ CallsOf("query_information")[1].kind # "returned")
               /\ Len(conversation_messages) = 1 + 2 * turns)
    /\ TurnsComplete

\* C21 witness: the second turn ended with the apology right after its first
\* completion failed.
C21_Witness ==
    /\ TurnDone
    /\ turns = 2
    /\ trace = FailedOrder
    /\ calls[1].kind = "APIError"
    /\ Len(conversation_messages) = 5
    /\ Last(conversation_messages).content = ApiErrorMessage

\* The system message, then user and assistant messages in turn.
Alternating(history) ==
    /\ history[1] = Msg("system", system_message_content)
    /\ \A i \in 2..Len(history) :
         history[i].role = IF i % 2 = 0 THEN "user" ELSE "assistant"

\* The history as it was when the current turn was accepted.
HistoryAtTurnStart ==
    IF TurnDone
    THEN SubSeq(conversation_messages, 1, Len(conversation_messages) - 2)
    ELSE conversation_messages

\* C22: the history is the system message followed by alternating user and
\* assistant messages, 1 + 2n after n turns; a step only appends to it; the
\* raw tool request and the injected system message of a query turn are
\* added to messages_for_synthesis alone; the first completion of a turn
\* receives the history and the new user message.
C22_HistoryAppendOnly ==
    /\ [](/\ Alternating(conversation_messages)
          /\ Len(conversation_messages) = 1 + 2 * (IF InTurn THEN turns - 1 ELSE turns)
          /\ trace # <<>> =>
               /\ current_turn_messages
                     = Append(HistoryAtTurnStart, Last(current_turn_messages))
               /\ Last(current_turn_messages).role = "user"
               /\ TurnDone => SubSeq(conversation_messages, 1, Len(current_turn_messages))
                                 = current_turn_messages
          /\ calls # <<>> =>
               /\ calls[1].fn = "chat.completions.create"
               /\ calls[1].args = <<current_turn_messages>>
          /\ (Len(trace) >= 3 /\ trace[3] = "AwaitingSynthesis") =>
               /\ messages_for_synthesis
                     = current_turn_messages
                       \o SubSeq(messages_for_synthesis, Len(current_turn_messages) + 1,
                                 Len(current_turn_messages) + 2)
               /\ messages_for_synthesis[Len(current_turn_messages) + 1]
                     = Msg("assistant", llm_initial_response)
               /\ Last(messages_for_synthesis).role = "system"
               /\ Last(messages_for_synthesis) \notin
                     {conversation_messages[i] : i \in 1..Len(conversation_messages)}
               /\ Len(conversation_messages) < Len(messages_for_synthesis))
    /\ [][IsPrefix(conversation_messages, conversation_messages')]_vars

\* C22 witness: two query turns are over: the history holds five messages,
\* the second turn's messages for synthesis held six.
C22_Witness ==
    /\ TurnDone
    /\ turns = 2
    /\ Len(conversation_messages) = 5
    /\ conversation_messages[3].content = "FIB is a school."
    /\ trace = <<"AwaitingModelDecision", "Querying", "AwaitingSynthesis", "TurnComplete">>
    /\ Len(messages_for_synthesis) = 6
    /\ Last(conversation_messages).content = "FIB is a school."

====
